---- MODULE Spec2Model ----
(***************************************************************************)
(* Ekf::fuseDrag (src/EKF/drag_fusion.cpp): sequential fusion of the body  *)
(* X and body Y specific-force drag measurements into the 24-state EKF.    *)
(*                                                                         *)
(* Numbers.  The code computes in IEEE single precision.  The model        *)
(* computes the same expressions over exact rationals <<n, d>> (d > 0,     *)
(* lowest terms), so each equality below is an equality of the formulas    *)
(* the code evaluates, free of rounding.  sqrtf is exact on the squares    *)
(* the inputs produce and rounds down elsewhere.                           *)
(***************************************************************************)
EXTENDS Integers, Sequences, FiniteSets, TLC

(***************************************************************************)
(* Rational arithmetic                                                     *)
(***************************************************************************)
RECURSIVE GCD(_, _)
GCD(a, b) == IF b = 0 THEN a ELSE GCD(b, a % b)

AbsI(n) == IF n < 0 THEN -n ELSE n

Norm(n, d) ==
    IF n = 0 THEN <<0, 1>>
    ELSE LET s == IF d < 0 THEN -1 ELSE 1
             g == GCD(AbsI(n), AbsI(d))
         IN  <<(s * n) \div g, (s * d) \div g>>

Z == <<0, 1>>
One == <<1, 1>>
Two == <<2, 1>>
Half == <<1, 2>>
Tenth == <<1, 10>>
TwentyFive == <<25, 1>>
R(n) == <<n, 1>>
Fr(n, d) == Norm(n, d)

a (+) b ==
    IF a[1] = 0 THEN b
    ELSE IF b[1] = 0 THEN a
    ELSE IF a[2] = b[2] THEN Norm(a[1] + b[1], a[2])
    ELSE LET g == GCD(a[2], b[2])
         IN  Norm(a[1] * (b[2] \div g) + b[1] * (a[2] \div g), (a[2] \div g) * b[2])

Neg(a) == <<-a[1], a[2]>>

a (-) b == a (+) Neg(b)

a (\X) b ==
    IF a[1] = 0 \/ b[1] = 0 THEN Z
    ELSE LET g1 == GCD(AbsI(a[1]), b[2])
             g2 == GCD(AbsI(b[1]), a[2])
         IN  <<(a[1] \div g1) * (b[1] \div g2), (a[2] \div g2) * (b[2] \div g1)>>

\* float division; the callers below divide by non-zero values only
a (/) b ==
    a (\X) (IF b[1] < 0 THEN <<-b[2], -b[1]>> ELSE <<b[2], b[1]>>)

Lt(a, b) ==
    LET g == GCD(a[2], b[2])
    IN  a[1] * (b[2] \div g) < b[1] * (a[2] \div g)
Le(a, b) == ~Lt(b, a)

sq(a) == a (\X) a
powf2(a) == a (\X) a
fabsf(a) == <<AbsI(a[1]), a[2]>>
fmaxf(a, b) == IF Lt(a, b) THEN b ELSE a

ISqrt(n) == CHOOSE r \in 0..n : r * r <= n /\ n < (r + 1) * (r + 1)
sqrtf(a) == Norm(ISqrt(a[1]), ISqrt(a[2]))

(***************************************************************************)
(* Ekf::fuseDrag: the generated expressions of the two axes               *)
(***************************************************************************)
\* intermediate variables of axis X (drag_fusion.cpp lines 96-127)
HKx(P, L, Kaccx) ==
    LET q0 == L.q0
        q1 == L.q1
        q2 == L.q2
        q3 == L.q3
        vn == L.vn
        ve == L.ve
        vd == L.vd
        vwn == L.vwn
        vwe == L.vwe
        HK0 == vn (-) vwn
        HK1 == ve (-) vwe
        HK2 == HK0 (\X) q0 (+) HK1 (\X) q3 (-) q2 (\X) vd
        HK3 == Two (\X) Kaccx
        HK4 == HK0 (\X) q1 (+) HK1 (\X) q2 (+) q3 (\X) vd
        HK5 == HK0 (\X) q2 (-) HK1 (\X) q1 (+) q0 (\X) vd
        HK6 == Z (-) HK0 (\X) q3 (+) HK1 (\X) q0 (+) q1 (\X) vd
        HK7 == powf2(q0) (+) powf2(q1) (-) powf2(q2) (-) powf2(q3)
        HK8 == HK7 (\X) Kaccx
        HK9 == q0 (\X) q3 (+) q1 (\X) q2
        HK10 == HK3 (\X) HK9
        HK11 == q0 (\X) q2 (-) q1 (\X) q3
        HK12 == Two (\X) HK9
        HK13 == Two (\X) HK11
        HK14 == Two (\X) HK4
        HK15 == Two (\X) HK2
        HK16 == Two (\X) HK5
        HK17 == Two (\X) HK6
        HK18 == Z (-) HK12 (\X) P[0][23] (+) HK12 (\X) P[0][5] (-) HK13 (\X) P[0][6] (+) HK14 (\X) P[0][1] (+) HK15 (\X) P[0][0] (-) HK16 (\X) P[0][2] (+) HK17 (\X) P[0][3] (-) HK7 (\X) P[0][22] (+) HK7 (\X) P[0][4]
        HK19 == HK12 (\X) P[5][23]
        HK20 == Z (-) HK12 (\X) P[23][23] (-) HK13 (\X) P[6][23] (+) HK14 (\X) P[1][23] (+) HK15 (\X) P[0][23] (-) HK16 (\X) P[2][23] (+) HK17 (\X) P[3][23] (+) HK19 (-) HK7 (\X) P[22][23] (+) HK7 (\X) P[4][23]
        HK21 == powf2(Kaccx)
        HK22 == HK12 (\X) HK21
        HK23 == HK12 (\X) P[5][5] (-) HK13 (\X) P[5][6] (+) HK14 (\X) P[1][5] (+) HK15 (\X) P[0][5] (-) HK16 (\X) P[2][5] (+) HK17 (\X) P[3][5] (-) HK19 (+) HK7 (\X) P[4][5] (-) HK7 (\X) P[5][22]
        HK24 == HK12 (\X) P[5][6] (-) HK12 (\X) P[6][23] (-) HK13 (\X) P[6][6] (+) HK14 (\X) P[1][6] (+) HK15 (\X) P[0][6] (-) HK16 (\X) P[2][6] (+) HK17 (\X) P[3][6] (+) HK7 (\X) P[4][6] (-) HK7 (\X) P[6][22]
        HK25 == HK7 (\X) P[4][22]
        HK26 == Z (-) HK12 (\X) P[4][23] (+) HK12 (\X) P[4][5] (-) HK13 (\X) P[4][6] (+) HK14 (\X) P[1][4] (+) HK15 (\X) P[0][4] (-) HK16 (\X) P[2][4] (+) HK17 (\X) P[3][4] (-) HK25 (+) HK7 (\X) P[4][4]
        HK27 == HK21 (\X) HK7
        HK28 == Z (-) HK12 (\X) P[22][23] (+) HK12 (\X) P[5][22] (-) HK13 (\X) P[6][22] (+) HK14 (\X) P[1][22] (+) HK15 (\X) P[0][22] (-) HK16 (\X) P[2][22] (+) HK17 (\X) P[3][22] (+) HK25 (-) HK7 (\X) P[22][22]
        HK29 == Z (-) HK12 (\X) P[1][23] (+) HK12 (\X) P[1][5] (-) HK13 (\X) P[1][6] (+) HK14 (\X) P[1][1] (+) HK15 (\X) P[0][1] (-) HK16 (\X) P[1][2] (+) HK17 (\X) P[1][3] (-) HK7 (\X) P[1][22] (+) HK7 (\X) P[1][4]
        HK30 == Z (-) HK12 (\X) P[2][23] (+) HK12 (\X) P[2][5] (-) HK13 (\X) P[2][6] (+) HK14 (\X) P[1][2] (+) HK15 (\X) P[0][2] (-) HK16 (\X) P[2][2] (+) HK17 (\X) P[2][3] (-) HK7 (\X) P[2][22] (+) HK7 (\X) P[2][4]
        HK31 == Z (-) HK12 (\X) P[3][23] (+) HK12 (\X) P[3][5] (-) HK13 (\X) P[3][6] (+) HK14 (\X) P[1][3] (+) HK15 (\X) P[0][3] (-) HK16 (\X) P[2][3] (+) HK17 (\X) P[3][3] (-) HK7 (\X) P[3][22] (+) HK7 (\X) P[3][4]
    IN  [HK0 |-> HK0, HK1 |-> HK1, HK2 |-> HK2, HK3 |-> HK3, HK4 |-> HK4, HK5 |-> HK5,
         HK6 |-> HK6, HK7 |-> HK7, HK8 |-> HK8, HK9 |-> HK9, HK10 |-> HK10, HK11 |-> HK11,
         HK12 |-> HK12, HK13 |-> HK13, HK14 |-> HK14, HK15 |-> HK15, HK16 |-> HK16,
         HK17 |-> HK17, HK18 |-> HK18, HK19 |-> HK19, HK20 |-> HK20, HK21 |-> HK21,
         HK22 |-> HK22, HK23 |-> HK23, HK24 |-> HK24, HK25 |-> HK25, HK26 |-> HK26,
         HK27 |-> HK27, HK28 |-> HK28, HK29 |-> HK29, HK30 |-> HK30, HK31 |-> HK31]

\* innovation variance of axis X (line 131)
InnovVarX(hk, R_ACC) ==
    Z (-) hk.HK13 (\X) hk.HK21 (\X) hk.HK24 (+) hk.HK14 (\X) hk.HK21 (\X) hk.HK29 (+) hk.HK15 (\X) hk.HK18 (\X) hk.HK21 (-) hk.HK16 (\X) hk.HK21 (\X) hk.HK30 (+) hk.HK17 (\X) hk.HK21 (\X) hk.HK31 (-) hk.HK20 (\X) hk.HK22 (+) hk.HK22 (\X) hk.HK23 (+) hk.HK26 (\X) hk.HK27 (-) hk.HK27 (\X) hk.HK28 (+) R_ACC

\* observation Jacobian of axis X over state indices 0..6, 22, 23 (lines 139-147)
HfusionX(hk) ==
    <<Z (-) hk.HK2 (\X) hk.HK3,
      Z (-) hk.HK3 (\X) hk.HK4,
      hk.HK3 (\X) hk.HK5,
      Z (-) hk.HK3 (\X) hk.HK6,
      Z (-) hk.HK8,
      Z (-) hk.HK10,
      hk.HK11 (\X) hk.HK3,
      hk.HK8,
      hk.HK10>>

\* the two Kalman gains axis X assigns (lines 173-174)
KfusionX(hk, HK32) ==
    [k22 |-> Z (-) hk.HK28 (\X) HK32,
     k23 |-> Z (-) hk.HK20 (\X) HK32]

\* intermediate variables of axis Y (lines 192-223)
HKy(P, L, Kaccy) ==
    LET q0 == L.q0
        q1 == L.q1
        q2 == L.q2
        q3 == L.q3
        vn == L.vn
        ve == L.ve
        vd == L.vd
        vwn == L.vwn
        vwe == L.vwe
        HK0 == ve (-) vwe
        HK1 == vn (-) vwn
        HK2 == HK0 (\X) q0 (-) HK1 (\X) q3 (+) q1 (\X) vd
        HK3 == Two (\X) Kaccy
        HK4 == Z (-) HK0 (\X) q1 (+) HK1 (\X) q2 (+) q0 (\X) vd
        HK5 == HK0 (\X) q2 (+) HK1 (\X) q1 (+) q3 (\X) vd
        HK6 == HK0 (\X) q3 (+) HK1 (\X) q0 (-) q2 (\X) vd
        HK7 == q0 (\X) q3 (-) q1 (\X) q2
        HK8 == HK3 (\X) HK7
        HK9 == powf2(q0) (-) powf2(q1) (+) powf2(q2) (-) powf2(q3)
        HK10 == HK9 (\X) Kaccy
        HK11 == q0 (\X) q1 (+) q2 (\X) q3
        HK12 == Two (\X) HK11
        HK13 == Two (\X) HK7
        HK14 == Two (\X) HK5
        HK15 == Two (\X) HK2
        HK16 == Two (\X) HK4
        HK17 == Two (\X) HK6
        HK18 == HK12 (\X) P[0][6] (+) HK13 (\X) P[0][22] (-) HK13 (\X) P[0][4] (+) HK14 (\X) P[0][2] (+) HK15 (\X) P[0][0] (+) HK16 (\X) P[0][1] (-) HK17 (\X) P[0][3] (-) HK9 (\X) P[0][23] (+) HK9 (\X) P[0][5]
        HK19 == powf2(Kaccy)
        HK20 == HK12 (\X) P[6][6] (-) HK13 (\X) P[4][6] (+) HK13 (\X) P[6][22] (+) HK14 (\X) P[2][6] (+) HK15 (\X) P[0][6] (+) HK16 (\X) P[1][6] (-) HK17 (\X) P[3][6] (+) HK9 (\X) P[5][6] (-) HK9 (\X) P[6][23]
        HK21 == HK13 (\X) P[4][22]
        HK22 == HK12 (\X) P[6][22] (+) HK13 (\X) P[22][22] (+) HK14 (\X) P[2][22] (+) HK15 (\X) P[0][22] (+) HK16 (\X) P[1][22] (-) HK17 (\X) P[3][22] (-) HK21 (-) HK9 (\X) P[22][23] (+) HK9 (\X) P[5][22]
        HK23 == HK13 (\X) HK19
        HK24 == HK12 (\X) P[4][6] (-) HK13 (\X) P[4][4] (+) HK14 (\X) P[2][4] (+) HK15 (\X) P[0][4] (+) HK16 (\X) P[1][4] (-) HK17 (\X) P[3][4] (+) HK21 (-) HK9 (\X) P[4][23] (+) HK9 (\X) P[4][5]
        HK25 == HK9 (\X) P[5][23]
        HK26 == HK12 (\X) P[5][6] (-) HK13 (\X) P[4][5] (+) HK13 (\X) P[5][22] (+) HK14 (\X) P[2][5] (+) HK15 (\X) P[0][5] (+) HK16 (\X) P[1][5] (-) HK17 (\X) P[3][5] (-) HK25 (+) HK9 (\X) P[5][5]
        HK27 == HK19 (\X) HK9
        HK28 == HK12 (\X) P[6][23] (+) HK13 (\X) P[22][23] (-) HK13 (\X) P[4][23] (+) HK14 (\X) P[2][23] (+) HK15 (\X) P[0][23] (+) HK16 (\X) P[1][23] (-) HK17 (\X) P[3][23] (+) HK25 (-) HK9 (\X) P[23][23]
        HK29 == HK12 (\X) P[2][6] (+) HK13 (\X) P[2][22] (-) HK13 (\X) P[2][4] (+) HK14 (\X) P[2][2] (+) HK15 (\X) P[0][2] (+) HK16 (\X) P[1][2] (-) HK17 (\X) P[2][3] (-) HK9 (\X) P[2][23] (+) HK9 (\X) P[2][5]
        HK30 == HK12 (\X) P[1][6] (+) HK13 (\X) P[1][22] (-) HK13 (\X) P[1][4] (+) HK14 (\X) P[1][2] (+) HK15 (\X) P[0][1] (+) HK16 (\X) P[1][1] (-) HK17 (\X) P[1][3] (-) HK9 (\X) P[1][23] (+) HK9 (\X) P[1][5]
        HK31 == HK12 (\X) P[3][6] (+) HK13 (\X) P[3][22] (-) HK13 (\X) P[3][4] (+) HK14 (\X) P[2][3] (+) HK15 (\X) P[0][3] (+) HK16 (\X) P[1][3] (-) HK17 (\X) P[3][3] (-) HK9 (\X) P[3][23] (+) HK9 (\X) P[3][5]
    IN  [HK0 |-> HK0, HK1 |-> HK1, HK2 |-> HK2, HK3 |-> HK3, HK4 |-> HK4, HK5 |-> HK5,
         HK6 |-> HK6, HK7 |-> HK7, HK8 |-> HK8, HK9 |-> HK9, HK10 |-> HK10, HK11 |-> HK11,
         HK12 |-> HK12, HK13 |-> HK13, HK14 |-> HK14, HK15 |-> HK15, HK16 |-> HK16,
         HK17 |-> HK17, HK18 |-> HK18, HK19 |-> HK19, HK20 |-> HK20, HK21 |-> HK21,
         HK22 |-> HK22, HK23 |-> HK23, HK24 |-> HK24, HK25 |-> HK25, HK26 |-> HK26,
         HK27 |-> HK27, HK28 |-> HK28, HK29 |-> HK29, HK30 |-> HK30, HK31 |-> HK31]

\* innovation variance of axis Y (line 225)
InnovVarY(hk, R_ACC) ==
    hk.HK12 (\X) hk.HK19 (\X) hk.HK20 (+) hk.HK14 (\X) hk.HK19 (\X) hk.HK29 (+) hk.HK15 (\X) hk.HK18 (\X) hk.HK19 (+) hk.HK16 (\X) hk.HK19 (\X) hk.HK30 (-) hk.HK17 (\X) hk.HK19 (\X) hk.HK31 (+) hk.HK22 (\X) hk.HK23 (-) hk.HK23 (\X) hk.HK24 (+) hk.HK26 (\X) hk.HK27 (-) hk.HK27 (\X) hk.HK28 (+) R_ACC

\* observation Jacobian of axis Y over state indices 0..6, 22, 23 (lines 234-242)
HfusionY(hk) ==
    <<Z (-) hk.HK2 (\X) hk.HK3,
      Z (-) hk.HK3 (\X) hk.HK4,
      hk.HK3 (\X) hk.HK5,
      Z (-) hk.HK3 (\X) hk.HK6,
      Z (-) hk.HK8,
      Z (-) hk.HK10,
      hk.HK11 (\X) hk.HK3,
      hk.HK8,
      hk.HK10>>

\* the two Kalman gains axis Y assigns (lines 268-269)
KfusionY(hk, HK32) ==
    [k22 |-> Z (-) hk.HK28 (\X) HK32,
     k23 |-> Z (-) hk.HK20 (\X) HK32]

(***************************************************************************)
(* State layout                                                            *)
(***************************************************************************)
\* _k_num_states: Kfusion has this many entries and KHP this many rows
k_num_states == 24
States == 0..(k_num_states - 1)
Axes == {0, 1}

\* the state indices Hfusion[0..8] stand for ("indexing is different to state vector")
Touched == <<0, 1, 2, 3, 4, 5, 6, 22, 23>>

\* members of _state by their offset in the 24-vector
quat_nominal(st, i) == st[i]
vel(st, i) == st[4 + i]
delta_vel_bias(st, i) == st[13 + i]
wind_vel(st, i) == st[22 + i]

ZeroVec == [i \in States |-> Z]
ZeroMat == [i \in States |-> [j \in States |-> Z]]

(***************************************************************************)
(* Collaborators of fuseDrag that live outside drag_fusion.cpp             *)
(***************************************************************************)
\* quatToInverseRotMat: the earth-to-body rotation of a quaternion
quatToInverseRotMat(q0, q1, q2, q3) ==
    <<<<sq(q0) (+) sq(q1) (-) sq(q2) (-) sq(q3),
        Two (\X) (q1 (\X) q2 (+) q0 (\X) q3),
        Two (\X) (q1 (\X) q3 (-) q0 (\X) q2)>>,
      <<Two (\X) (q1 (\X) q2 (-) q0 (\X) q3),
        sq(q0) (-) sq(q1) (+) sq(q2) (-) sq(q3),
        Two (\X) (q2 (\X) q3 (+) q0 (\X) q1)>>,
      <<Two (\X) (q1 (\X) q3 (+) q0 (\X) q2),
        Two (\X) (q2 (\X) q3 (-) q0 (\X) q1),
        sq(q0) (-) sq(q1) (-) sq(q2) (+) sq(q3)>>>>

MatVec3(M, v) ==
    [r \in 1..3 |-> M[r][1] (\X) v[1] (+) M[r][2] (\X) v[2] (+) M[r][3] (\X) v[3]]

\* P.uncorrelateCovarianceSetVariance<1>(i, 0.0f): row i and column i are
\* zeroed and P(i,i) is set to the given variance
uncorrelateCovarianceSetVariance(Pm, i, var) ==
    [r \in States |-> [c \in States |->
        IF r = i /\ c = i THEN var
        ELSE IF r = i \/ c = i THEN Z
        ELSE Pm[r][c]]]

\* fixCovarianceErrors(true): the diagonal is bounded below by zero and the
\* matrix is made symmetric by averaging the two triangles
fixCovarianceErrors(Pm) ==
    [r \in States |-> [c \in States |->
        IF r = c THEN fmaxf(Pm[r][r], Z)
        ELSE IF Pm[r][c] = Pm[c][r] THEN Pm[r][c]
        ELSE Half (\X) (Pm[r][c] (+) Pm[c][r])]]

\* fuse(K, innovation): state <- state - K * innovation
fuse(K, innovation, st) ==
    [i \in States |-> st[i] (-) K[i] (\X) innovation]

(***************************************************************************)
(* Ekf::fuseDrag, the pieces of one axis                                   *)
(***************************************************************************)
\* line 50
R_ACC_of(prm) == sq(prm.drag_noise)

\* line 52
rho_of(air) == fmaxf(air, Tenth)

\* the guard with "and" in place of "or"
Disabled_both(prm) == Lt(prm.bcoef_x, One) /\ Lt(prm.bcoef_y, One)

\* lines 55-57
Disabled(prm) == Lt(prm.bcoef_x, One) \/ Lt(prm.bcoef_y, One)

\* lines 59-60
BC_inv(prm, axis) == One (/) (IF axis = 0 THEN prm.bcoef_x ELSE prm.bcoef_y)

\* lines 63-81: the state captured once, before the axis loop
Capture(st) ==
    LET q0 == quat_nominal(st, 0)
        q1 == quat_nominal(st, 1)
        q2 == quat_nominal(st, 2)
        q3 == quat_nominal(st, 3)
        vn == vel(st, 0)
        ve == vel(st, 1)
        vd == vel(st, 2)
        vwn == wind_vel(st, 0)
        vwe == wind_vel(st, 1)
        rel_wind_earth == <<vn (-) vwn, ve (-) vwe, vd>>
        earth_to_body == quatToInverseRotMat(q0, q1, q2, q3)
    IN  [q0 |-> q0, q1 |-> q1, q2 |-> q2, q3 |-> q3,
         vn |-> vn, ve |-> ve, vd |-> vd, vwn |-> vwn, vwe |-> vwe,
         rel_wind_body |-> MatVec3(earth_to_body, rel_wind_earth)]

\* lines 88 and 185
mea_acc_of(axis, accelXY, st, dt) ==
    accelXY[axis + 1] (-) (delta_vel_bias(st, axis) (/) dt)

\* lines 89 and 186
airSpd_of(mea, bcinv, rho) ==
    sqrtf((Two (\X) fabsf(mea)) (/) (bcinv (\X) rho))

\* lines 93 and 190
Kacc_of(mea, bcinv, rho) ==
    fmaxf(Tenth, rho (\X) bcinv (\X) airSpd_of(mea, bcinv, rho))

\* lines 177-179 and 272-274
predAccel_of(axis, bcinv, rho, rel_wind_body) ==
    LET drag_sign == IF Le(Z, rel_wind_body[axis + 1]) THEN One ELSE Neg(One)
    IN  Z (-) bcinv (\X) Half (\X) rho (\X) sq(rel_wind_body[axis + 1]) (\X) drag_sign

\* the gate sized by 5 instead of 5 squared
test_ratio_of_five(innov, innov_var) ==
    sq(innov) (/) (R(5) (\X) innov_var)

\* lines 181 and 276
test_ratio_of(innov, innov_var) ==
    sq(innov) (/) (TwentyFive (\X) innov_var)

\* line 281
PassesGate(ratio) == Le(ratio, One)

\* lines 132 and 226
BadlyConditioned(innov_var, R_ACC) == Lt(innov_var, R_ACC)

\* lines 285-306: KHP(row, column), from the nine Hfusion entries
ComputeKHP(K, H, Pm) ==
    [row \in States |->
        LET KH == [index \in 1..9 |-> K[row] (\X) H[index]]
        IN  [column \in States |->
                KH[1] (\X) Pm[0][column] (+) KH[2] (\X) Pm[1][column]
                (+) KH[3] (\X) Pm[2][column] (+) KH[4] (\X) Pm[3][column]
                (+) KH[5] (\X) Pm[4][column] (+) KH[6] (\X) Pm[5][column]
                (+) KH[7] (\X) Pm[6][column] (+) KH[8] (\X) Pm[22][column]
                (+) KH[9] (\X) Pm[23][column]]]

\* the test on the prior variance alone, the correction left out
NegativeVariance_prior(Pm, khp, i) == Lt(Pm[i][i], Z)

\* line 313
NegativeVariance(Pm, khp, i) == Lt(Pm[i][i], khp[i][i])

\* the loop that repairs the covariance and forgets to clear healthy
RECURSIVE HealthLoop_keepsHealthy(_, _, _, _)
HealthLoop_keepsHealthy(Pm, khp, i, healthy) ==
    IF i = k_num_states THEN [P |-> Pm, healthy |-> healthy]
    ELSE IF Lt(Pm[i][i], khp[i][i])
         THEN HealthLoop_keepsHealthy(uncorrelateCovarianceSetVariance(Pm, i, Z),
                                      khp, i + 1, healthy)
         ELSE HealthLoop_keepsHealthy(Pm, khp, i + 1, healthy)

\* lines 310-318: the health loop, from index i upwards, on the covariance as
\* the earlier iterations left it
RECURSIVE HealthLoop(_, _, _, _)
HealthLoop(Pm, khp, i, healthy) ==
    IF i = k_num_states THEN [P |-> Pm, healthy |-> healthy]
    ELSE IF NegativeVariance(Pm, khp, i)
         THEN HealthLoop(uncorrelateCovarianceSetVariance(Pm, i, Z), khp, i + 1, FALSE)
         ELSE HealthLoop(Pm, khp, i + 1, healthy)

\* line 322
MatSub(A, B) == [r \in States |-> [c \in States |-> A[r][c] (-) B[r][c]]]

\* the return taken before the innovation variance is stored
AbortWrites_nothing(axis, S, d) == d

\* lines 131-134 and 225-229: what an axis that is badly conditioned has
\* written when it returns
AbortWrites(axis, S, d) ==
    [innov |-> d.innov,
     innov_var |-> [d.innov_var EXCEPT ![axis] = S],
     test_ratio |-> d.test_ratio]

\* lines 131, 180-181 and 225, 275-276: what an axis that is well conditioned
\* has written when it reaches the gate
GateWrites(axis, S, innov, d) ==
    [innov |-> [d.innov EXCEPT ![axis] = innov],
     innov_var |-> [d.innov_var EXCEPT ![axis] = S],
     test_ratio |-> [d.test_ratio EXCEPT ![axis] = test_ratio_of(innov, S)]]

\* "continue" in place of "return"
AfterAxis_continue(axis, aborted) ==
    IF axis + 1 < 2 THEN "axis" ELSE "done"

\* lines 84, 133, 228 and 331: where control goes after an axis
AfterAxis(axis, aborted) ==
    IF aborted THEN "done"
    ELSE IF axis + 1 < 2 THEN "axis"
    ELSE "done"

\* lines 131 and 225
InnovVar_of(axis, hk, R_ACC) ==
    IF axis = 0 THEN InnovVarX(hk, R_ACC) ELSE InnovVarY(hk, R_ACC)

\* lines 139-147 and 234-242
Hfusion_of(axis, hk) ==
    IF axis = 0 THEN HfusionX(hk) ELSE HfusionY(hk)

\* lines 135, 173-174 and 230, 268-269: entries 22 and 23 are assigned, every
\* other entry of Kfusion keeps what it held
Kfusion_of(axis, hk, Kacc, S, K) ==
    LET HK32 == Kacc (/) S
        gains == IF axis = 0 THEN KfusionX(hk, HK32) ELSE KfusionY(hk, HK32)
    IN  [K EXCEPT ![22] = gains.k22, ![23] = gains.k23]

(***************************************************************************)
(* Inputs                                                                  *)
(***************************************************************************)
\* calls of fuseDrag in one behaviour
MaxCalls == 2

\* _air_density and _dt_ekf_avg, fixed over a behaviour
air_density == Fr(1, 1)
dt_ekf_avg == Fr(1, 100)

\* unit quaternions: level, and a turn of 120 degrees about the (1,1,1) axis
QuatLevel == <<One, Z, Z, Z>>
QuatTurned == <<Half, Half, Half, Half>>

\* <<vel, wind_vel, delta_vel_bias(0)>>: hover in still air, and flight in wind
Hover == <<<<Z, Z, Z>>, <<Z, Z>>, Z>>
Flight == <<<<R(3), R(1), Z>>, <<R(1), R(1)>>, Fr(1, 100)>>

MkState(q, k) ==
    [i \in States |->
        IF i < 4 THEN q[i + 1]
        ELSE IF i < 7 THEN k[1][i - 3]
        ELSE IF i = 13 THEN k[3]
        ELSE IF i >= 22 THEN k[2][i - 21]
        ELSE Z]

\* a symmetric covariance: d on the diagonal, off[<<i, j>>] at (i,j) and (j,i)
MkCov(d, off) ==
    [i \in States |-> [j \in States |->
        IF i = j THEN d
        ELSE IF <<i, j>> \in DOMAIN off THEN off[<<i, j>>]
        ELSE IF <<j, i>> \in DOMAIN off THEN off[<<j, i>>]
        ELSE Z]]

CovIdentity == MkCov(One, <<>>)
CovCorrelated ==
    MkCov(Two, (<<4, 22>> :> One) @@ (<<5, 23>> :> One) @@ (<<22, 23>> :> Half)
               @@ (<<0, 22>> :> Half) @@ (<<3, 23>> :> Half) @@ (<<6, 22>> :> Half))
\* symmetric with a non-negative diagonal, but indefinite
CovWind == MkCov(One, (<<22, 23>> :> R(3)) @@ (<<7, 8>> :> Half))
CovVelWindN == MkCov(One, (<<4, 22>> :> R(3)))
CovVelWindE == MkCov(One, (<<5, 23>> :> R(3)))
\* a converged filter: small variances
CovSmall == MkCov(Fr(1, 100), <<>>)

\* what the prediction step hands over: <<state, covariance>>
Priors ==
    {<<MkState(QuatLevel, Hover), c>> :
        c \in {CovIdentity, CovWind, CovVelWindN, CovVelWindE, CovSmall}}
    \cup {<<MkState(QuatLevel, Flight), CovCorrelated>>,
          <<MkState(QuatTurned, Flight), CovIdentity>>,
          <<MkState(QuatTurned, Flight), CovCorrelated>>}

\* _params: bcoef_x, bcoef_y, drag_noise
Params ==
    {[bcoef_x |-> R(2), bcoef_y |-> R(2), drag_noise |-> Half],
     [bcoef_x |-> Half, bcoef_y |-> R(2), drag_noise |-> Half],
     [bcoef_x |-> R(2), bcoef_y |-> Half, drag_noise |-> Half]}

\* _drag_sample_delayed.accelXY
Samples == {<<Z, Z>>, <<R(1), R(-1)>>, <<R(4), Z>>}

\* what the stack holds where Kfusion is declared (line 49): nothing is assumed
\* of it, three of the possible contents are explored; the last one reaches
\* the entry that fuse() applies to delta_vel_bias(1)
StackContents ==
    {ZeroVec, [ZeroVec EXCEPT ![4] = One, ![9] = Half],
     [ZeroVec EXCEPT ![14] = Fr(1, 100)]}

\* the contents a call is explored with: the one that reaches delta_vel_bias
\* is explored from the turned flight state with the identity covariance,
\* where the exact fractions stay within the integers TLC computes with, the
\* other two from every other state and covariance
StackContentsWith(st, Pm) ==
    IF st = MkState(QuatTurned, Flight) /\ Pm = CovIdentity
    THEN {k \in StackContents : k[14] # Z}
    ELSE {k \in StackContents : k[14] = Z}

(***************************************************************************)
(* State                                                                   *)
(***************************************************************************)
VARIABLES
    state,                \* _state, as a 24-vector
    P,                    \* the covariance
    params,               \* _params
    drag_sample_delayed,  \* _drag_sample_delayed.accelXY
    diag,                 \* _drag_innov, _drag_innov_var, _drag_test_ratio
    pc,                   \* "idle", "ready", "axis" (in the loop), "done"
    axis_index,           \* the loop variable
    loc,                  \* the locals captured before the loop
    Kfusion,              \* local array float Kfusion[24]
    Hfusion,              \* local array float Hfusion[9]
    KHP,                  \* local matrix of the last accepted axis
    calls,                \* calls made so far
    outcome,              \* per axis of this call: what the axis did
    entry,                \* state, P and diag when the call began
    step                  \* state, P and diag when the axis last run began

vars == <<state, P, params, drag_sample_delayed, diag, pc, axis_index, loc,
          Kfusion, Hfusion, KHP, calls, outcome, entry, step>>

ZeroDiag ==
    [innov |-> [a \in Axes |-> Z],
     innov_var |-> [a \in Axes |-> Z],
     test_ratio |-> [a \in Axes |-> Z]]

NoOutcome == [a \in Axes |-> "none"]
ZeroH == [i \in 1..9 |-> Z]
Snapshot == [state |-> state, P |-> P, diag |-> diag]

\* the filter after construction: level, at rest, no drag diagnostics yet
Init ==
    /\ state = MkState(QuatLevel, Hover)
    /\ P = CovIdentity
    /\ params \in Params
    /\ drag_sample_delayed = <<Z, Z>>
    /\ diag = ZeroDiag
    /\ pc = "idle"
    /\ axis_index = 0
    /\ loc = Capture(state)
    /\ Kfusion = ZeroVec
    /\ Hfusion = ZeroH
    /\ KHP = ZeroMat
    /\ calls = 0
    /\ outcome = NoOutcome
    /\ entry = Snapshot
    /\ step = Snapshot

(***************************************************************************)
(* Actions                                                                 *)
(***************************************************************************)
\* the prediction step and the delay buffer, outside this file: they hand
\* over the prior state and covariance and the sample of the next call
PredictState ==
    /\ pc \in {"idle", "done"}
    /\ calls < MaxCalls
    /\ \E pr \in Priors :
          /\ state' = pr[1]
          /\ P' = pr[2]
          /\ entry' = [state |-> pr[1], P |-> pr[2], diag |-> diag]
          /\ step' = [state |-> pr[1], P |-> pr[2], diag |-> diag]
    /\ \E s \in Samples : drag_sample_delayed' = s
    /\ pc' = "ready"
    /\ axis_index' = 0
    /\ loc' = Capture(state')
    /\ Kfusion' = ZeroVec
    /\ Hfusion' = ZeroH
    /\ KHP' = ZeroMat
    /\ outcome' = NoOutcome
    /\ UNCHANGED <<params, diag, calls>>

\* a call with a ballistic coefficient below 1: lines 46-57
FuseDragDisabled ==
    /\ pc = "ready"
    /\ Disabled(params)
    /\ calls' = calls + 1
    /\ pc' = "done"
    /\ UNCHANGED <<state, P, params, drag_sample_delayed, diag, axis_index, loc,
                   Kfusion, Hfusion, KHP, outcome, entry, step>>

\* a call that reaches the axis loop: lines 46-84
FuseDragBegin ==
    /\ pc = "ready"
    /\ ~Disabled(params)
    /\ \E k \in StackContentsWith(state, P) : Kfusion' = k
    /\ loc' = Capture(state)
    /\ axis_index' = 0
    /\ calls' = calls + 1
    /\ pc' = "axis"
    /\ UNCHANGED <<state, P, params, drag_sample_delayed, diag, Hfusion, KHP,
                   outcome, entry, step>>

\* both axes computed from the covariance the call started with
HK_of_prior(axis, Pm, L, Kacc) ==
    IF axis = 0 THEN HKx(Pm, L, Kacc) ELSE HKy(entry.P, L, Kacc)

\* lines 96-127 and 192-223: the intermediate variables of an axis, from the
\* covariance the filter holds when the axis runs
HK_of(axis, Pm, L, Kacc) ==
    IF axis = 0 THEN HKx(Pm, L, Kacc) ELSE HKy(Pm, L, Kacc)

\* what one iteration of the loop leaves behind
AxisEffect(Pn, stn, Kn, Hn, khpn, dn, oc) ==
    /\ P' = Pn
    /\ state' = stn
    /\ Kfusion' = Kn
    /\ Hfusion' = Hn
    /\ KHP' = khpn
    /\ diag' = dn
    /\ outcome' = [outcome EXCEPT ![axis_index] = oc]
    /\ pc' = AfterAxis(axis_index, oc = "abort")
    /\ axis_index' = IF pc' = "axis" THEN axis_index + 1 ELSE axis_index

\* one iteration of the loop: lines 84-331
FuseAxis ==
    /\ pc = "axis"
    /\ LET axis == axis_index
           R_ACC == R_ACC_of(params)
           rho == rho_of(air_density)
           bcinv == BC_inv(params, axis)
       IN
       \E mea_acc \in {mea_acc_of(axis, drag_sample_delayed, state, dt_ekf_avg)} :
       \E Kacc \in {Kacc_of(mea_acc, bcinv, rho)} :
       \E hk \in {HK_of(axis, P, loc, Kacc)} :
       \E S \in {InnovVar_of(axis, hk, R_ACC)} :
          IF BadlyConditioned(S, R_ACC)
          THEN \* lines 132-134, 226-229: return
               AxisEffect(P, state, Kfusion, Hfusion, KHP,
                          AbortWrites(axis, S, diag), "abort")
          ELSE
          \E Hnew \in {Hfusion_of(axis, hk)} :
          \E Knew \in {Kfusion_of(axis, hk, Kacc, S, Kfusion)} :
          \E innov \in {predAccel_of(axis, bcinv, rho, loc.rel_wind_body) (-) mea_acc} :
          \E dnew \in {GateWrites(axis, S, innov, diag)} :
             IF ~PassesGate(dnew.test_ratio[axis])
             THEN \* line 281: the sample is not fused
                  AxisEffect(P, state, Knew, Hnew, KHP, dnew, "reject")
             ELSE
             \E khp \in {ComputeKHP(Knew, Hnew, P)} :
             \E hl \in {HealthLoop(P, khp, 0, TRUE)} :
                IF hl.healthy
                THEN \* lines 320-328
                     AxisEffect(fixCovarianceErrors(MatSub(P, khp)),
                                fuse(Knew, innov, state),
                                Knew, Hnew, khp, dnew, "fused")
                ELSE AxisEffect(hl.P, state, Knew, Hnew, khp, dnew, "unhealthy")
    /\ step' = Snapshot
    /\ UNCHANGED <<params, drag_sample_delayed, loc, calls, entry>>

Next == PredictState \/ FuseDragDisabled \/ FuseDragBegin \/ FuseAxis

Spec == Init /\ [][Next]_vars

(***************************************************************************)
(* Vocabulary of the properties                                            *)
(***************************************************************************)
\* axis a is the axis that ran last in the current call; step then holds the
\* state, covariance and diagnostics that axis started from
JustRan(a) ==
    /\ pc \in {"axis", "done"}
    /\ outcome[a] # "none"
    /\ a = 0 => outcome[1] = "none"

Accepted(a) == outcome[a] \in {"fused", "unhealthy"}
WindIndices == {22, 23}

\* (P * H^T)(i) over the nine Jacobian entries
PHt(H, Pm, i) ==
    H[1] (\X) Pm[i][0] (+) H[2] (\X) Pm[i][1] (+) H[3] (\X) Pm[i][2]
    (+) H[4] (\X) Pm[i][3] (+) H[5] (\X) Pm[i][4] (+) H[6] (\X) Pm[i][5]
    (+) H[7] (\X) Pm[i][6] (+) H[8] (\X) Pm[i][22] (+) H[9] (\X) Pm[i][23]

\* H * P * H^T
HPHt(H, Pm) ==
    H[1] (\X) PHt(H, Pm, 0) (+) H[2] (\X) PHt(H, Pm, 1) (+) H[3] (\X) PHt(H, Pm, 2)
    (+) H[4] (\X) PHt(H, Pm, 3) (+) H[5] (\X) PHt(H, Pm, 4) (+) H[6] (\X) PHt(H, Pm, 5)
    (+) H[7] (\X) PHt(H, Pm, 6) (+) H[8] (\X) PHt(H, Pm, 22)
    (+) H[9] (\X) PHt(H, Pm, 23)

Symmetric(M) == \A i, j \in States : i < j => M[i][j] = M[j][i]
NonNegDiagonal(M) == \A i \in States : ~Lt(M[i][i], Z)

\* what axis a computes from the inputs of this call
CallR == params.drag_noise (\X) params.drag_noise
CallMea(a) == mea_acc_of(a, drag_sample_delayed, step.state, dt_ekf_avg)
CallKacc(a) == Kacc_of(CallMea(a), BC_inv(params, a), rho_of(air_density))
CallInnov(a) ==
    predAccel_of(a, BC_inv(params, a), rho_of(air_density), loc.rel_wind_body)
    (-) CallMea(a)
CallVarOn(a, Pm) ==
    IF a = 0 THEN InnovVarX(HKx(Pm, loc, CallKacc(a)), CallR)
    ELSE InnovVarY(HKy(Pm, loc, CallKacc(a)), CallR)

(***************************************************************************)
(* C1                                                                      *)
(***************************************************************************)
\* C1: the gain vector handed to the covariance correction and to fuse() is
\* zero outside entries 22 and 23, so an accepted, healthy update leaves
\* every state component outside the wind pair at its pre-update value.
C1_GainZeroOutsideWind ==
    \A a \in Axes :
        (JustRan(a) /\ Accepted(a)) =>
            /\ \A i \in States \ WindIndices : Kfusion[i] = Z
            /\ outcome[a] = "fused" =>
                  \A i \in States \ WindIndices : state[i] = step.state[i]

(***************************************************************************)
(* C2                                                                      *)
(***************************************************************************)
\* C2: for both axes the two wind gains are the entries 22 and 23 of
\* P * H^T / S: Kfusion[22] * S = sum_j P(22,j) H_j, Kfusion[23] * S likewise.
C2_WindGainIsPHtOverS ==
    \A a \in Axes :
        (JustRan(a) /\ outcome[a] # "abort") =>
            /\ Kfusion[22] (\X) diag.innov_var[a] = PHt(Hfusion, step.P, 22)
            /\ Kfusion[23] (\X) diag.innov_var[a] = PHt(Hfusion, step.P, 23)

\* the same statement for axis X alone
C2_AxisXOnly ==
    (JustRan(0) /\ outcome[0] # "abort") =>
        /\ Kfusion[22] (\X) diag.innov_var[0] = PHt(Hfusion, step.P, 22)
        /\ Kfusion[23] (\X) diag.innov_var[0] = PHt(Hfusion, step.P, 23)

(***************************************************************************)
(* C3                                                                      *)
(***************************************************************************)
\* C3: for both axes the stored innovation variance is H * P * H^T + R with
\* H the Jacobian row Hfusion that the covariance correction uses.
C3_InnovVarIsHPHtPlusR ==
    \A a \in Axes :
        (JustRan(a) /\ outcome[a] # "abort") =>
            diag.innov_var[a] = HPHt(Hfusion, step.P) (+) CallR

\* the same statement for axis X alone
C3_AxisXOnly ==
    (JustRan(0) /\ outcome[0] # "abort") =>
        diag.innov_var[0] = HPHt(Hfusion, step.P) (+) CallR

(***************************************************************************)
(* C4                                                                      *)
(***************************************************************************)
\* C4: an axis whose innovation variance S is not below R publishes this
\* call's innovation, S and test_ratio = innovation^2 / (25 S); it is accepted
\* iff test_ratio <= 1, and when rejected (innovation^2 > 25 S) it leaves the
\* state and the covariance as they were.
C4_GateAt25S ==
    \A a \in Axes :
        (JustRan(a) /\ outcome[a] # "abort") =>
            /\ ~Lt(diag.innov_var[a], CallR)
            /\ diag.innov[a] = CallInnov(a)
            /\ diag.innov_var[a] = CallVarOn(a, step.P)
            /\ diag.test_ratio[a] (\X) (TwentyFive (\X) diag.innov_var[a])
                  = diag.innov[a] (\X) diag.innov[a]
            /\ Accepted(a) <=> ~Lt(One, diag.test_ratio[a])
            /\ outcome[a] = "reject" <=>
                  Lt(TwentyFive (\X) diag.innov_var[a], diag.innov[a] (\X) diag.innov[a])
            /\ outcome[a] = "reject" => (state = step.state /\ P = step.P)

\* an axis was rejected by the gate with a non-zero innovation
C4_Witness ==
    \E a \in Axes :
        /\ JustRan(a)
        /\ outcome[a] = "reject"
        /\ diag.innov[a] # Z
        /\ diag.test_ratio[a] # step.diag.test_ratio[a]

(***************************************************************************)
(* C5                                                                      *)
(***************************************************************************)
\* C5 as claimed: when axis X finds S < R it changes nothing and processing
\* still proceeds to axis Y, whose innovation variance is computed in the
\* same call.
C5_AbortXProceedsToY ==
    (pc = "done" /\ outcome[0] = "abort") =>
        /\ outcome[1] # "none"
        /\ diag.innov_var[1] = CallVarOn(1, entry.P)

\* C5 as amended: when axis X finds S < R it computes no gain, changes
\* neither state nor covariance, and fuseDrag returns: axis Y is not run in
\* that call and its three diagnostics keep the values they had at entry.
C5_AbortXReturns ==
    outcome[0] = "abort" =>
        /\ pc = "done"
        /\ outcome[1] = "none"
        /\ Kfusion \in StackContents
        /\ state = entry.state
        /\ P = entry.P
        /\ diag.innov_var[0] = CallVarOn(0, entry.P)
        /\ Lt(diag.innov_var[0], CallR)
        /\ diag.innov_var[1] = entry.diag.innov_var[1]
        /\ diag.innov[1] = entry.diag.innov[1]
        /\ diag.test_ratio[1] = entry.diag.test_ratio[1]

\* axis X aborted in a call that follows one in which axis Y had run, and
\* axis Y would have computed another innovation variance
C5_Witness ==
    /\ outcome[0] = "abort"
    /\ pc = "done"
    /\ entry.diag.innov_var[1] # Z
    /\ diag.innov_var[1] # CallVarOn(1, entry.P)

(***************************************************************************)
(* C6                                                                      *)
(***************************************************************************)
\* C6: in an accepted axis, if some candidate variance P(i,i) - KHP(i,i) is
\* negative, P -= KHP is not applied and the state is not corrected; row i
\* and column i of every such i are zeroed, P(i,i) included, and every other
\* covariance entry keeps its value.
C6_UnhealthyRepair ==
    \A a \in Axes :
        (JustRan(a) /\ Accepted(a)
         /\ \E i \in States : Lt(step.P[i][i] (-) KHP[i][i], Z)) =>
            /\ outcome[a] = "unhealthy"
            /\ state = step.state
            /\ \A i, j \in States :
                  P[i][j] = IF \/ Lt(step.P[i][i] (-) KHP[i][i], Z)
                               \/ Lt(step.P[j][j] (-) KHP[j][j], Z)
                            THEN Z
                            ELSE step.P[i][j]

\* an accepted axis found a negative candidate variance on a row that held a
\* non-zero covariance, while another row kept one
C6_Witness ==
    \E a \in Axes :
        /\ JustRan(a)
        /\ outcome[a] = "unhealthy"
        /\ \E i, j \in States :
              /\ i # j
              /\ Lt(step.P[i][i] (-) KHP[i][i], Z)
              /\ step.P[i][j] # Z
              /\ P[i][j] = Z
        /\ \E i, j \in States : i # j /\ P[i][j] # Z

(***************************************************************************)
(* C7                                                                      *)
(***************************************************************************)
\* C7 as claimed: for an accepted, healthy update from a symmetric covariance
\* with non-negative diagonal, KHP is symmetric, so P - KHP is symmetric and
\* has a non-negative diagonal.
C7_SymmetricCorrection ==
    \A a \in Axes :
        (JustRan(a) /\ outcome[a] = "fused"
         /\ Symmetric(step.P) /\ NonNegDiagonal(step.P)) =>
            /\ Symmetric(KHP)
            /\ Symmetric(MatSub(step.P, KHP))
            /\ NonNegDiagonal(MatSub(step.P, KHP))

\* C7 as amended: for an accepted, healthy update from a symmetric covariance
\* with non-negative diagonal, every diagonal entry of the committed P - KHP
\* is non-negative (KHP itself need not be symmetric).
C7_CommittedDiagonalNonNegative ==
    \A a \in Axes :
        (JustRan(a) /\ outcome[a] = "fused"
         /\ Symmetric(step.P) /\ NonNegDiagonal(step.P)) =>
            \A i \in States : ~Lt(step.P[i][i] (-) KHP[i][i], Z)

\* an accepted, healthy update of axis X, its gain zero outside the wind
\* pair, whose correction is not symmetric and lowers a variance
C7_Witness ==
    \E a \in {0} :
        /\ JustRan(a)
        /\ outcome[a] = "fused"
        /\ Symmetric(step.P) /\ NonNegDiagonal(step.P)
        /\ \A i \in States \ WindIndices : Kfusion[i] = Z
        /\ ~Symmetric(KHP)
        /\ \E i \in States : Lt(Z, KHP[i][i])

(***************************************************************************)
(* C8                                                                      *)
(***************************************************************************)
\* C8: if bcoef_x or bcoef_y is below 1, a call leaves the state and the
\* covariance (and the diagnostics) exactly as they were before the call.
C8_DisabledIsNoOp ==
    (/\ calls > 0
     /\ pc \in {"axis", "done"}
     /\ \/ Lt(params.bcoef_x, One)
        \/ Lt(params.bcoef_y, One)) =>
        /\ pc = "done"
        /\ state = entry.state
        /\ P = entry.P
        /\ diag = entry.diag
        /\ outcome = NoOutcome

\* a call with bcoef_y below 1 has returned, on a sample that is not zero
C8_Witness ==
    /\ pc = "done"
    /\ calls > 0
    /\ Lt(params.bcoef_y, One)
    /\ ~Lt(params.bcoef_x, One)
    /\ drag_sample_delayed # <<Z, Z>>
    /\ P # CovIdentity

(***************************************************************************)
(* C9                                                                      *)
(***************************************************************************)
\* C9 as claimed: an axis that aborts on S < R mutates neither state nor
\* covariance, and its innovation, innovation variance and test ratio are
\* all this call's values.
C9_AbortPublishesAll ==
    \A a \in Axes :
        (JustRan(a) /\ outcome[a] = "abort") =>
            /\ state = step.state
            /\ P = step.P
            /\ diag.innov_var[a] = CallVarOn(a, step.P)
            /\ diag.innov[a] = CallInnov(a)
            /\ diag.test_ratio[a] (\X) (TwentyFive (\X) diag.innov_var[a])
                  = CallInnov(a) (\X) CallInnov(a)

\* C9 as amended: an axis that aborts on S < R mutates neither state nor
\* covariance; of its three diagnostics only the innovation variance is this
\* call's value, the innovation and the test ratio keep what they held when
\* the call began.
C9_AbortPublishesVarianceOnly ==
    \A a \in Axes :
        (JustRan(a) /\ outcome[a] = "abort") =>
            /\ pc = "done"
            /\ state = step.state
            /\ P = step.P
            /\ diag.innov_var[a] = CallVarOn(a, step.P)
            /\ Lt(diag.innov_var[a], CallR)
            /\ diag.innov[a] = entry.diag.innov[a]
            /\ diag.test_ratio[a] = entry.diag.test_ratio[a]

\* an axis aborted while it still held the innovation of an earlier call,
\* which is not the innovation of this call
C9_Witness ==
    \E a \in Axes :
        /\ JustRan(a)
        /\ outcome[a] = "abort"
        /\ entry.diag.innov[a] # Z
        /\ entry.diag.innov[a] # CallInnov(a)
        /\ entry.diag.innov_var[a] # diag.innov_var[a]

(***************************************************************************)
(* C10                                                                     *)
(***************************************************************************)
\* C10: axis X runs before axis Y, and axis Y computes its innovation
\* variance, its gains and its covariance correction from the covariance as
\* axis X left it: the prior when X was rejected, otherwise what X wrote.
C10_YUsesCovarianceLeftByX ==
    /\ outcome[1] # "none" => outcome[0] \in {"reject", "unhealthy", "fused"}
    /\ (pc = "axis" /\ axis_index = 1 /\ outcome[0] = "reject") => P = entry.P
    /\ JustRan(1) =>
          \E hk \in {HKy(step.P, loc, CallKacc(1))} :
          \E S \in {InnovVarY(hk, CallR)} :
             /\ diag.innov_var[1] = S
             /\ outcome[0] = "reject" => step.P = entry.P
             /\ outcome[1] # "abort" =>
                   /\ Kfusion[22] = KfusionY(hk, CallKacc(1) (/) S).k22
                   /\ Kfusion[23] = KfusionY(hk, CallKacc(1) (/) S).k23
             /\ Accepted(1) => KHP = ComputeKHP(Kfusion, Hfusion, step.P)

\* axis Y ran after axis X had changed the covariance, and the prior
\* covariance would have given axis Y another innovation variance
C10_Witness ==
    /\ JustRan(1)
    /\ outcome[0] = "fused"
    /\ Accepted(1)
    /\ step.P # entry.P
    /\ diag.innov_var[1] # CallVarOn(1, entry.P)

(***************************************************************************)
(* C11                                                                     *)
(***************************************************************************)
\* what axis Y's innovation would have been had axis X not been fused: the
\* predicted specific force and the measured one, both from the state the
\* call began with
InnovYWithoutX ==
    predAccel_of(1, BC_inv(params, 1), rho_of(air_density),
                 Capture(entry.state).rel_wind_body)
    (-) mea_acc_of(1, drag_sample_delayed, entry.state, dt_ekf_avg)

\* C11: axis Y's predicted specific force, innovation and Jacobian row come
\* from the velocity, wind velocity and body-frame relative wind captured at
\* entry, not from the wind as axis X corrected it: in a call in which axis X
\* changed the wind state, axis Y's innovation is the value it would have had
\* if axis X had not been fused.
C11_YInnovationFromEntry ==
    (JustRan(1) /\ outcome[1] # "abort") =>
        /\ loc = Capture(entry.state)
        /\ Hfusion = HfusionY(HKy(step.P, loc, CallKacc(1)))
        /\ diag.innov[1] = InnovYWithoutX

\* the part of C11 that rests on the captured values alone: the predicted
\* specific force and the Jacobian row of axis Y are those of the entry state,
\* the measured specific force is read from the state as axis X left it
C11_CapturedAtEntry ==
    (JustRan(1) /\ outcome[1] # "abort") =>
        /\ loc = Capture(entry.state)
        /\ Hfusion = HfusionY(HKy(step.P, loc, CallKacc(1)))
        /\ diag.innov[1] =
              predAccel_of(1, BC_inv(params, 1), rho_of(air_density),
                           Capture(entry.state).rel_wind_body)
              (-) mea_acc_of(1, drag_sample_delayed, step.state, dt_ekf_avg)

\* axis Y ran after axis X had moved the wind state, and the wind as axis X
\* left it would have given axis Y another innovation
C11_Witness ==
    /\ JustRan(1)
    /\ outcome[0] = "fused"
    /\ outcome[1] # "abort"
    /\ \E i \in WindIndices : step.state[i] # entry.state[i]
    /\ diag.innov[1] #
          (predAccel_of(1, BC_inv(params, 1), rho_of(air_density),
                        Capture(step.state).rel_wind_body)
           (-) CallMea(1))

====
